---- MODULE Spec2Model ----
(***************************************************************************)
(* Model of dati_playground/precommit_validators.py:                       *)
(*   get_shacl_graph    - lru_cache(maxsize=100) around a Turtle parse,    *)
(*   validate_shacl     - ancestor walk for rules.shacl, then pyshacl,     *)
(*   validate_directory - "latest" against the highest version directory.  *)
(* Three specifications share the variables: SpecDir drives                *)
(* validate_directory, SpecShacl drives validate_shacl (and through it the *)
(* cache), SpecCache drives get_shacl_graph alone.                         *)
(***************************************************************************)
EXTENDS Naturals, Sequences, FiniteSets, TLC

VARIABLES
    \* ---- get_shacl_graph (functools.lru_cache) ----
    cache,      \* the cached entries [key, graph], least recently used first
    created,    \* number of Graph() objects built so far; a graph is its number
    history,    \* the paths of the calls that returned, oldest first
    lastGet,    \* the last call: [path, result, graph]
    warm,       \* SpecCache: how many distinct paths are requested first
    free,       \* SpecCache: calls made after those
    \* ---- validate_shacl ----
    rulesAt,    \* the absolute directories that hold a rules.shacl
    cwd,        \* the process's working directory
    file,       \* the path validate_shacl is called with
    sh,         \* what the last call of validate_shacl did
    proc,       \* "running", or "exited" once SystemExit ended the process
    scalls,     \* calls of validate_shacl made
    \* ---- validate_directory ----
    top,        \* entries of ontology_path: name -> [kind, files]
    errors,     \* the caller's error list
    errors0,    \* the error list as it was when the call was made
    dlog,       \* records logged at error level by validate_directory
    dres,       \* [outcome, last_version, compared] of the call
    dpc         \* "ready" before the call, "done" after it

cvars == <<cache, created, history, lastGet, warm, free>>
svars == <<rulesAt, cwd, file, sh, proc, scalls>>
dvars == <<top, errors, errors0, dlog, dres, dpc>>
vars == <<cvars, svars, dvars>>

(***************************************************************************)
(* Helpers on sequences and sets.                                          *)
(***************************************************************************)
Range(s) == {s[i] : i \in 1..Len(s)}

\* All orders in which a finite set can be iterated (set iteration order and
\* directory listing order are not fixed by the code).
Orderings(S) ==
    {s \in [1..Cardinality(S) -> S] : \A i, j \in 1..Cardinality(S) : s[i] = s[j] => i = j}

\* The elements of sequence s that are in S, in the order of s.
Restrict(s, S) == SelectSeq(s, LAMBDA x : x \in S)

(***************************************************************************)
(* Paths.  A path is absolute or relative and has components; component 0  *)
(* is the name "rules.shacl" and component 9 is the name of a data file.   *)
(* The path with no components is "/" when absolute and "." when relative. *)
(***************************************************************************)
Path(abs, parts) == [abs |-> abs, parts |-> parts]
RulesName == 0
DataName == 9

\* Path.is_absolute()
IsAbsolute(p) == p.abs

\* Path.parent: the parent of "/" is "/" and the parent of "." is ".".
Parent(p) ==
    IF p.parts = <<>> THEN p
    ELSE Path(p.abs, SubSeq(p.parts, 1, Len(p.parts) - 1))

\* p / name
Join(p, name) == Path(p.abs, Append(p.parts, name))

\* Path.absolute(): a relative path is put under the working directory.
Absolute(p, wd) == IF p.abs THEN p ELSE Path(TRUE, wd \o p.parts)

(***************************************************************************)
(* get_shacl_graph(absolute_path), wrapped by lru_cache(maxsize=100).      *)
(***************************************************************************)
maxsize == 100

NoGraph == 0

\* The argument of one call as the caller writes it: passed positionally or
\* by keyword, as a str or as a Path object naming the path.
Argument(how, type, path) == [how |-> how, type |-> type, path |-> path]

\* get_shacl_graph(rule_file_path): a str passed positionally.
PositionalStr(path) == Argument("positional", "str", path)

\* functools._make_key: the key is built from the arguments as passed.  A
\* keyword argument is keyed apart from a positional one, and a Path object
\* is not equal to the str of the same path.
MakeKey(arg) == <<arg.how, arg.type, arg.path>>

\* The path a cache key was made from.
KeyPath(key) == key[3]

CachedAt(c, key) == CHOOSE i \in 1..Len(c) : c[i].key = key

\* A hit moves the entry to the most recently used end.
LruTouch(c, i) ==
    SubSeq(c, 1, i - 1) \o SubSeq(c, i + 1, Len(c)) \o <<c[i]>>

\* Mutant of LruInsert: the cache is full only above maxsize entries.
LruInsertLate(c, entry) ==
    IF Len(c) > maxsize THEN Append(Tail(c), entry) ELSE Append(c, entry)

\* A miss stores the result; a full cache drops its least recently used entry.
LruInsert(c, entry) ==
    IF Len(c) >= maxsize THEN Append(Tail(c), entry) ELSE Append(c, entry)

GetResult(c, n, result, graph, log) ==
    [cache |-> c, created |-> n, result |-> result, graph |-> graph, log |-> log]

LogRecord(level, text, about) == [level |-> level, text |-> text, about |-> about]

\* The body of get_shacl_graph; parses tells whether Graph.parse succeeds.
\* Graph() is built before parse is called.
\* Path(absolute_path) takes a str and a Path object alike.
GetShaclGraphBody(c, n, arg, parses) ==
    LET absolute_path == arg.path
    IN IF ~IsAbsolute(absolute_path)
       THEN GetResult(c, n, "ValueError", NoGraph, <<>>)
       ELSE LET log == <<LogRecord("info", "Loading SHACL graph from", absolute_path)>>
            IN IF ~parses
               THEN GetResult(c, n + 1, "ParseError", NoGraph, log)
               ELSE GetResult(LruInsert(c, [key |-> MakeKey(arg), graph |-> n + 1]),
                              n + 1, "returned", n + 1, log)

\* The cached call: a key in the cache is answered from it.  arg is the
\* argument as passed; the key is made from it, not from the path alone.
get_shacl_graph(c, n, arg, parses) ==
    LET key == MakeKey(arg)
    IN IF \E i \in 1..Len(c) : c[i].key = key
       THEN LET i == CachedAt(c, key)
            IN GetResult(LruTouch(c, i), n, "returned", c[i].graph, <<>>)
       ELSE GetShaclGraphBody(c, n, arg, parses)

NoGet == [path |-> Path(TRUE, <<>>), result |-> "none", graph |-> NoGraph]

(***************************************************************************)
(* validate_shacl(file)                                                    *)
(* file is a path object: the function calls file.as_posix().              *)
(***************************************************************************)
MAX_DEPTH == 5

\* basedir = Path(__file__).parent, an absolute path.
basedir == Path(TRUE, <<1, 1>>)

\* rule_file_candidate.exists()
RulesExist(rule_dir, rules, wd) == Absolute(rule_dir, wd).parts \in rules

WalkResult(found, rule_dir, examined) ==
    [found |-> found, rule_dir |-> rule_dir, examined |-> examined]

\* rule_dir == basedir: equality of the paths as written.
AtBaseDir(rule_dir) == rule_dir = basedir

\* for _ in range(MAX_DEPTH): ... ; n iterations are left.
RECURSIVE Walk(_, _, _, _, _)
Walk(rule_dir, n, examined, rules, wd) ==
    IF n = 0 THEN WalkResult(FALSE, rule_dir, examined)
    ELSE IF RulesExist(rule_dir, rules, wd)
         THEN WalkResult(TRUE, rule_dir, Append(examined, rule_dir))
         ELSE IF AtBaseDir(rule_dir)
              THEN WalkResult(FALSE, rule_dir, Append(examined, rule_dir))
              ELSE Walk(Parent(rule_dir), n - 1, Append(examined, rule_dir), rules, wd)

\* Mutant of CaughtByHandler: a bare "except:" that catches SystemExit too.
CaughtByHandlerBare(exc) == TRUE

\* except Exception: SystemExit is a BaseException, not an Exception.
CaughtByHandler(exc) == exc \in {"EngineError", "ValueError", "ParseError"}

\* validate(file.as_posix(), shacl_graph=shacl_graph, advanced=True)
EngineCall(f, shacl_graph) ==
    [file |-> f, shacl_graph |-> shacl_graph, advanced |-> TRUE]

NoRuleFile == Path(FALSE, <<>>)

\* Mutant of GraphWanted: get_shacl_graph is called whether or not a rules
\* file was found.
GraphWantedAlways(walk) == TRUE

\* if rule_file_candidate.exists(): the graph is loaded only for a rules
\* file that was found.
GraphWanted(walk) == walk.found

\* gets: the arguments get_shacl_graph was called with; engine: the calls of
\* the validation engine; outcome: "returned" or the exception that left.
ShaclResult(c, n, walk, rule_file_path, gets, engine, verdict, log, outcome) ==
    [cache |-> c, created |-> n, examined |-> walk.examined, found |-> walk.found,
     rule_file_path |-> rule_file_path, gets |-> gets, engine |-> engine,
     verdict |-> verdict, log |-> log, outcome |-> outcome]

\* The try block and its handler.  verdict is what the engine does with the
\* call: "valid", "invalid", or "raises".
Validate(c, n, f, walk, rule_file_path, shacl_graph, gets, log, verdict) ==
    LET engine == <<EngineCall(f, shacl_graph)>>
        result == LogRecord("info", "Validation result", rule_file_path)
        raised == IF verdict = "raises" THEN "EngineError"
                  ELSE IF verdict = "invalid" THEN "SystemExit"
                  ELSE "none"
        log1 == IF verdict = "raises" THEN log ELSE Append(log, result)
    IN IF raised = "none"
       THEN ShaclResult(c, n, walk, rule_file_path, gets, engine, verdict, log1, "returned")
       ELSE IF CaughtByHandler(raised)
       THEN ShaclResult(c, n, walk, rule_file_path, gets, engine, verdict,
                        Append(log1, LogRecord("error", "Error validating", rule_file_path)),
                        raised)
       ELSE ShaclResult(c, n, walk, rule_file_path, gets, engine, verdict, log1, raised)

\* rules and wd are the file system and the working directory; parses and
\* verdict are what Graph.parse and the engine do in this call.
validate_shacl(c, n, f, rules, wd, parses, verdict) ==
    LET log0 == <<LogRecord("info", "Validating", f)>>
        walk == Walk(Parent(f), MAX_DEPTH, <<>>, rules, wd)
    IN IF ~GraphWanted(walk)
       THEN Validate(c, n, f, walk, NoRuleFile, NoGraph, <<>>, log0, verdict)
       ELSE
           LET rule_file_path == Absolute(Join(walk.rule_dir, RulesName), wd)
               g == get_shacl_graph(c, n, PositionalStr(rule_file_path), parses)
           IN IF g.result # "returned"
              THEN ShaclResult(g.cache, g.created, walk, rule_file_path,
                               <<rule_file_path>>, <<>>, "none", log0 \o g.log, g.result)
              ELSE Validate(g.cache, g.created, f, walk, rule_file_path, g.graph,
                            <<rule_file_path>>,
                            (log0 \o g.log)
                               \o <<LogRecord("info", "Found shacl file", rule_file_path)>>,
                            verdict)

(***************************************************************************)
(* Directory and file names.  A name is the sequence of its characters, so *)
(* that packaging.version.Version is modelled by what it does to the text. *)
(***************************************************************************)
Latest == <<"l", "a", "t", "e", "s", "t">>
NoName == <<>>

DigitSeq == <<"0", "1", "2", "3", "4", "5", "6", "7", "8", "9">>
Digits == Range(DigitSeq)
DigitVal(c) == (CHOOSE i \in 1..Len(DigitSeq) : DigitSeq[i] = c) - 1

\* str.split(sep) on a sequence of characters.
RECURSIVE SplitOn(_, _)
SplitOn(s, sep) ==
    IF \A i \in 1..Len(s) : s[i] # sep
    THEN <<s>>
    ELSE LET k == CHOOSE i \in 1..Len(s) : s[i] = sep /\ \A j \in 1..(i - 1) : s[j] # sep
         IN <<SubSeq(s, 1, k - 1)>> \o SplitOn(SubSeq(s, k + 1, Len(s)), sep)

\* int() of a string of decimal digits.
RECURSIVE ToInt(_)
ToInt(seg) ==
    IF seg = <<>> THEN 0
    ELSE 10 * ToInt(SubSeq(seg, 1, Len(seg) - 1)) + DigitVal(seg[Len(seg)])

(***************************************************************************)
(* packaging.version.Version on names over digits, ".", "v" and "x": the   *)
(* PEP 440 pattern accepts exactly  v?[0-9]+(\.[0-9]+)*  of these (every   *)
(* other part of the pattern needs a character outside that alphabet).     *)
(***************************************************************************)
VersionBody(name) == IF name # <<>> /\ name[1] = "v" THEN Tail(name) ELSE name

IsVersion(name) ==
    LET segs == SplitOn(VersionBody(name), ".")
    IN \A i \in 1..Len(segs) :
          /\ segs[i] # <<>>
          /\ \A j \in 1..Len(segs[i]) : segs[i][j] \in Digits

\* Version(name).release
Release(name) ==
    LET segs == SplitOn(VersionBody(name), ".")
    IN [i \in 1..Len(segs) |-> ToInt(segs[i])]

\* The release part of Version._key: trailing zeros dropped.
RECURSIVE StripTrailingZeros(_)
StripTrailingZeros(r) ==
    IF r # <<>> /\ r[Len(r)] = 0
    THEN StripTrailingZeros(SubSeq(r, 1, Len(r) - 1))
    ELSE r

VersionKey(name) == StripTrailingZeros(Release(name))

\* Python's tuple ordering on two release keys.
KeyLess(a, b) ==
    \E k \in 1..Len(b) :
        /\ \A i \in 1..(k - 1) : i <= Len(a) /\ a[i] = b[i]
        /\ (k > Len(a) \/ (k <= Len(a) /\ a[k] < b[k]))

\* Python's str ordering on two names (code point order of the characters).
CharSeq == <<".">> \o DigitSeq \o <<"v", "x">>
CharRank(c) == CHOOSE i \in 1..Len(CharSeq) : CharSeq[i] = c
StrLess(a, b) ==
    \E k \in 1..Len(b) :
        /\ \A i \in 1..(k - 1) : i <= Len(a) /\ a[i] = b[i]
        /\ (k > Len(a) \/ (k <= Len(a) /\ CharRank(a[k]) < CharRank(b[k])))

\* Mutant of VersionLess: the names are ordered as strings (sorted(folders)).
VersionLessLexical(x, y) == StrLess(x, y)

\* Version(x) < Version(y)
VersionLess(x, y) == KeyLess(VersionKey(x), VersionKey(y))

\* sorted(versions, key=lambda v: v[0]): a stable sort, built by inserting
\* each element after every element that is not greater than it.
InsertStable(s, x) ==
    LET k == Cardinality({i \in 1..Len(s) : ~VersionLess(x, s[i])})
    IN SubSeq(s, 1, k) \o <<x>> \o SubSeq(s, k + 1, Len(s))

RECURSIVE SortedByVersion(_)
SortedByVersion(folders) ==
    IF folders = <<>> THEN <<>>
    ELSE InsertStable(SortedByVersion(SubSeq(folders, 1, Len(folders) - 1)),
                      folders[Len(folders)])

\* str(n) of a natural number, and str(Version(name)) of a release.
RECURSIVE IntToChars(_)
IntToChars(n) ==
    IF n < 10 THEN <<DigitSeq[n + 1]>>
    ELSE IntToChars(n \div 10) \o <<DigitSeq[(n % 10) + 1]>>

RECURSIVE JoinDots(_)
JoinDots(parts) ==
    IF Len(parts) = 1 THEN IntToChars(parts[1])
    ELSE IntToChars(parts[1]) \o <<".">> \o JoinDots(Tail(parts))

VersionString(name) == JoinDots(Release(name))

\* Mutant of LastVersion: the first element of the sorted list is taken
\* (sorted(...)[0][1]), the lowest version.
LastVersionLowest(folders) ==
    LET sorted == SortedByVersion(folders) IN sorted[1]

\* Mutant of LastVersion: the parsed version is turned back into text
\* (str(sorted(...)[-1][0])) instead of keeping the directory's own name.
LastVersionAsString(folders) ==
    LET sorted == SortedByVersion(folders) IN VersionString(sorted[Len(sorted)])

\* last_version = sorted(versions, key=lambda v: v[0])[-1][1]
LastVersion(folders) ==
    LET sorted == SortedByVersion(folders) IN sorted[Len(sorted)]

(***************************************************************************)
(* The file system under ontology_path.                                    *)
(*   top  : name -> [kind |-> "dir" | "file", files |-> name -> entry]     *)
(*   entry: [kind |-> "file" | "dir" | "broken", bytes |-> content]        *)
(* "broken" is an entry os.stat fails on (a dangling symbolic link).       *)
(* A content is a sequence of bytes; "LF" and "CR" are the newline bytes   *)
(* and "xFF" is a byte that is not valid UTF-8.                            *)
(***************************************************************************)
FileNames == {"f", "g"}

ContentPool ==
    { <<"a", "LF">>, <<"a", "CR", "LF">>, <<"b", "LF">>, <<"xFF">> }

RegularFile(b) == [kind |-> "file", bytes |-> b]
SubDirEntry == [kind |-> "dir", bytes |-> <<>>]
BrokenEntry == [kind |-> "broken", bytes |-> <<>>]

FileEntries == {RegularFile(b) : b \in ContentPool} \cup {SubDirEntry, BrokenEntry}

NoFiles == [n \in {} |-> SubDirEntry]

\* The contents "latest" is drawn from: "f" is any entry, "g" one of three.
SecondFileEntries == {RegularFile(<<"b", "LF">>), SubDirEntry, BrokenEntry}
DirContents ==
    { c \in UNION {[S -> FileEntries] : S \in SUBSET FileNames} :
        "g" \in DOMAIN c => c["g"] \in SecondFileEntries }

\* The contents the version directories are drawn from.
VersionDirPool ==
    { NoFiles,
      [n \in {"f", "g"} |->
          IF n = "f" THEN RegularFile(<<"a", "LF">>) ELSE RegularFile(<<"b", "LF">>)],
      [n \in {"f"} |-> SubDirEntry] }

Directory(files) == [kind |-> "dir", files |-> files]
PlainFile == [kind |-> "file", files |-> NoFiles]

\* Names of the entries of ontology_path other than "latest": directories
\* whose names are versions, a directory whose name is not one, and a plain
\* file whose name is a version higher than any directory's.
FolderSeq ==
    << <<"1", ".", "0">>, <<"2", ".", "3">>, <<"1", "0", ".", "0">>, <<"v", "1">> >>
FolderPool == Range(FolderSeq)
OtherDirName == <<"x">>
PlainFileName == <<"9", "9">>

MaxFolders == 3

\* Path.exists() / Path.is_dir() of ontology_path / name
Exists(fs, name) == name \in DOMAIN fs
IsDir(fs, name) == name \in DOMAIN fs /\ fs[name].kind = "dir"

\* set(f.name for f in dir.glob("*")): empty unless dir is a directory.
GlobNames(fs, name) == IF IsDir(fs, name) THEN DOMAIN fs[name].files ELSE {}

(***************************************************************************)
(* Reading a file in text mode (open(path) with the default newline=None): *)
(* the bytes are decoded as UTF-8 and every "\r\n" or "\r" becomes "\n".   *)
(***************************************************************************)
CanDecode(b) == \A i \in 1..Len(b) : b[i] # "xFF"

RECURSIVE UniversalNewlines(_)
UniversalNewlines(b) ==
    IF b = <<>> THEN <<>>
    ELSE IF b[1] = "CR"
         THEN IF Len(b) >= 2 /\ b[2] = "LF"
              THEN <<"LF">> \o UniversalNewlines(SubSeq(b, 3, Len(b)))
              ELSE <<"LF">> \o UniversalNewlines(Tail(b))
         ELSE <<b[1]>> \o UniversalNewlines(Tail(b))

\* str.splitlines(keepends=True) as readlines() does it.
RECURSIVE SplitLines(_)
SplitLines(t) ==
    IF t = <<>> THEN <<>>
    ELSE IF \A i \in 1..Len(t) : t[i] # "LF"
         THEN <<t>>
         ELSE LET k == CHOOSE i \in 1..Len(t) : t[i] = "LF" /\ \A j \in 1..(i - 1) : t[j] # "LF"
              IN <<SubSeq(t, 1, k)>> \o SplitLines(SubSeq(t, k + 1, Len(t)))

\* f.readlines() of a file that decodes.
ReadLines(b) == SplitLines(UniversalNewlines(b))

\* "".join(difflib.unified_diff(a, b, fromfile, tofile)): empty exactly when
\* the two lists of lines are equal, otherwise the headers and the hunks.
UnifiedDiff(a, b, fromfile, tofile) ==
    IF a = b THEN <<>>
    ELSE <<[fromfile |-> fromfile, tofile |-> tofile, removed |-> a, added |-> b]>>

(***************************************************************************)
(* filecmp.cmpfiles(left_dir, right_dir, common, shallow=False)            *)
(***************************************************************************)
\* filecmp.cmp(f1, f2, shallow=False) once os.stat succeeded on both.
Cmp(e1, e2) ==
    IF e1.kind # "file" \/ e2.kind # "file" THEN FALSE
    ELSE IF Len(e1.bytes) # Len(e2.bytes) THEN FALSE
    ELSE e1.bytes = e2.bytes

\* filecmp._cmp: 0 same, 1 different, 2 could not be compared (OSError).
CmpClass(e1, e2) ==
    IF e1.kind = "broken" \/ e2.kind = "broken" THEN 2
    ELSE IF Cmp(e1, e2) THEN 0 ELSE 1

\* common is the order in which the set right & left is iterated.
CmpFiles(left, right, common) ==
    [match    |-> SelectSeq(common, LAMBDA x : CmpClass(left[x], right[x]) = 0),
     mismatch |-> SelectSeq(common, LAMBDA x : CmpClass(left[x], right[x]) = 1),
     errs     |-> SelectSeq(common, LAMBDA x : CmpClass(left[x], right[x]) = 2)]

(***************************************************************************)
(* The strings validate_directory appends to errors.                       *)
(***************************************************************************)
FilePath(dir, name) == [dir |-> dir, name |-> name]
NoPath == [dir |-> NoName, name |-> ""]

Msg(kind, dir, names, left, right) ==
    [kind |-> kind, dir |-> dir, names |-> names, left |-> left, right |-> right]

\* f"No versioned directories found for {ontology_path}"
MsgNoVersions == Msg("No versioned directories found", NoName, <<>>, NoPath, NoPath)
\* f"ERROR: can't find {left_dir}"
MsgCantFind == Msg("ERROR: can't find", Latest, <<>>, NoPath, NoPath)
\* f"Only in latest/: ..." and f"Only in {last_version}/: ..."
MsgOnlyIn(dir, names) == Msg("Only in", dir, names, NoPath, NoPath)
\* f"ERROR: files are different: {left_path} {right_path}"
MsgDifferent(left_path, right_path) ==
    Msg("ERROR: files are different", NoName, <<>>, left_path, right_path)
\* f"ERROR: couldn't check these files: ... (permission issues?)"
MsgCouldNotCheck(names) ==
    Msg("ERROR: couldn't check these files", NoName, names, NoPath, NoPath)

\* An earlier call's entry already in the caller's list.
MsgPrior == Msg("earlier entry", NoName, <<>>, NoPath, NoPath)
PriorErrors == { <<>>, <<MsgPrior>> }

(***************************************************************************)
(* validate_directory(ontology_path, errors)                               *)
(***************************************************************************)
DirResult(errs, log, outcome, last_version, compared) ==
    [errors |-> errs, log |-> log, outcome |-> outcome,
     last_version |-> last_version, compared |-> compared]

\* The names the list comprehension keeps: directories not named "latest".
Folders(fs) == {x \in DOMAIN fs : x # Latest /\ IsDir(fs, x)}

\* only_latest = left - right
OnlyLatest(left, right) == left \ right

\* Mutant of OnlyVersionDir: the symmetric difference (right ^ left).
OnlyVersionDirSymmetric(left, right) == (right \ left) \cup (left \ right)

\* only_version_dir = right - left
OnlyVersionDir(left, right) == right \ left

\* if diffs: (the error entry and the logged diff depend on the diff text)
DiffReported(diffs) == diffs # <<>>

\* The loop over mismatch.  open() raises IsADirectoryError on a directory,
\* readlines() raises UnicodeDecodeError on bytes that are not UTF-8; an
\* exception leaves the loop and the function with what was appended so far.
RECURSIVE ReportMismatches(_, _, _, _, _)
ReportMismatches(mismatch, left, right, last_version, acc) ==
    IF mismatch = <<>> THEN acc
    ELSE
        LET fname == Head(mismatch)
            left_path == FilePath(Latest, fname)
            right_path == FilePath(last_version, fname)
        IN IF left[fname].kind = "dir" \/ right[fname].kind = "dir"
           THEN [acc EXCEPT !.outcome = "IsADirectoryError"]
           ELSE IF ~CanDecode(left[fname].bytes) \/ ~CanDecode(right[fname].bytes)
           THEN [acc EXCEPT !.outcome = "UnicodeDecodeError"]
           ELSE
               LET diffs == UnifiedDiff(ReadLines(left[fname].bytes),
                                        ReadLines(right[fname].bytes),
                                        left_path, right_path)
                   next == IF DiffReported(diffs)
                           THEN [acc EXCEPT
                                   !.errors = Append(@, MsgDifferent(left_path, right_path)),
                                   !.log = Append(@, diffs)]
                           ELSE acc
               IN ReportMismatches(Tail(mismatch), left, right, last_version, next)

\* From "left = set(...)" to the end.  fo is the order in which sets of file
\* names are iterated.
CompareDirectories(fs, errs, last_version, fo) ==
    LET left == GlobNames(fs, Latest)
        right == GlobNames(fs, last_version)
        only_latest == OnlyLatest(left, right)
        errs1 == IF only_latest # {}
                 THEN Append(errs, MsgOnlyIn(Latest, Restrict(fo, only_latest)))
                 ELSE errs
        only_version_dir == OnlyVersionDir(left, right)
        errs2 == IF only_version_dir # {}
                 THEN Append(errs1, MsgOnlyIn(last_version, Restrict(fo, only_version_dir)))
                 ELSE errs1
        common == right \cap left
    IN IF common = {}
       THEN DirResult(errs2, <<>>, "returned", last_version, TRUE)
       ELSE
           LET c == CmpFiles(fs[Latest].files, fs[last_version].files, Restrict(fo, common))
               acc == ReportMismatches(c.mismatch, fs[Latest].files, fs[last_version].files,
                                       last_version,
                                       DirResult(errs2, <<>>, "returned", last_version, TRUE))
           IN IF acc.outcome # "returned" THEN acc
              ELSE IF c.errs # <<>>
                   THEN [acc EXCEPT !.errors = Append(@, MsgCouldNotCheck(c.errs))]
                   ELSE acc

\* folders is the list the comprehension built, in listing order.
validate_directory(fs, errs, folders, fo) ==
    IF folders = <<>>
    THEN DirResult(Append(errs, MsgNoVersions), <<>>, "returned", NoName, FALSE)
    ELSE IF \E i \in 1..Len(folders) : ~IsVersion(folders[i])
    THEN DirResult(errs, <<>>, "InvalidVersion", NoName, FALSE)
    ELSE
        LET last_version == LastVersion(folders)
        IN IF ~Exists(fs, Latest)
           THEN DirResult(Append(errs, MsgCantFind), <<>>, "returned", last_version, FALSE)
           ELSE IF ~Exists(fs, last_version)
           THEN DirResult(errs, <<>>, "AssertionError", last_version, FALSE)
           ELSE CompareDirectories(fs, errs, last_version, fo)

\* The orders in which the directory is listed: glob() yields the entries
\* in the order of the directory scan, which is any order of the names.
ListingOrders(S) == Orderings(S)

\* The orders in which a set of file names is iterated.
FileOrders == Orderings(FileNames)

(***************************************************************************)
(* Initial values of the parts a specification does not drive.             *)
(***************************************************************************)
IdleCache ==
    /\ cache = <<>>
    /\ created = 0
    /\ history = <<>>
    /\ lastGet = NoGet

NoShacl ==
    [called |-> FALSE, examined |-> <<>>, found |-> FALSE, rule_file_path |-> NoRuleFile,
     gets |-> <<>>, engine |-> <<>>, verdict |-> "none", log |-> <<>>, outcome |-> "none"]

Running == [state |-> "running", status |-> 0]
ExitStatus == 1
\* exit(1): SystemExit(1) reaches the top and ends the process with status 1.
Exited == [state |-> "exited", status |-> ExitStatus]

IdleShacl ==
    /\ rulesAt = {}
    /\ cwd = <<>>
    /\ file = Path(TRUE, <<DataName>>)
    /\ sh = NoShacl
    /\ proc = Running
    /\ scalls = 0

NoDirResult == [outcome |-> "none", last_version |-> NoName, compared |-> FALSE]

\* One call of validate_directory on the directory and the caller's list.
ValidateDirectory ==
    /\ dpc = "ready"
    /\ \E folders \in ListingOrders(Folders(top)), fo \in FileOrders :
          LET r == validate_directory(top, errors, folders, fo)
          IN /\ errors' = r.errors
             /\ dlog' = r.log
             /\ dres' = [outcome |-> r.outcome, last_version |-> r.last_version,
                         compared |-> r.compared]
    /\ dpc' = "done"
    /\ UNCHANGED <<top, errors0, cvars, svars>>

NoTop == [n \in {} |-> PlainFile]
\* The version directories named S: one of them holds any contents of the
\* pool, the others are empty.
VersionLayouts(S) ==
    IF S = {} THEN {NoTop}
    ELSE {[n \in S |-> Directory(IF n = d THEN c ELSE NoFiles)] :
              d \in S, c \in VersionDirPool}
OtherLayouts ==
    { NoTop, (OtherDirName :> Directory(NoFiles)), (PlainFileName :> PlainFile) }
LatestEntries == {Directory(c) : c \in DirContents} \cup {PlainFile}
LatestLayouts == {NoTop} \cup {(Latest :> e) : e \in LatestEntries}

IdleDir ==
    /\ top = NoTop
    /\ errors = <<>>
    /\ errors0 = <<>>
    /\ dlog = <<>>
    /\ dres = NoDirResult
    /\ dpc = "ready"

InitDir ==
    /\ IdleCache /\ warm = 0 /\ free = 0
    /\ IdleShacl
    /\ \E S \in SUBSET FolderPool :
          /\ Cardinality(S) <= MaxFolders
          /\ \E vf \in VersionLayouts(S), ol \in OtherLayouts, ll \in LatestLayouts :
                top = vf @@ ol @@ ll
    /\ errors \in PriorErrors
    /\ errors0 = errors
    /\ dlog = <<>>
    /\ dres = NoDirResult
    /\ dpc = "ready"

NextDir == ValidateDirectory

SpecDir == InitDir /\ [][NextDir]_vars

(***************************************************************************)
(* SpecCache: calls of get_shacl_graph.  The first `warm` calls ask for    *)
(* `warm` distinct paths that parse; the calls after them ask for a path   *)
(* never asked for, the least or the most recently used cached path, the   *)
(* first path ever asked for, or a relative path.  Every call passes the   *)
(* path as validate_shacl does, a str passed positionally.                 *)
(***************************************************************************)
MaxFreeCalls == 4
WarmSizes == {0, 2, maxsize - 1, maxsize}

CachePath(k) == Path(TRUE, <<k, RulesName>>)
RelativePath == Path(FALSE, <<1, RulesName>>)

CallPaths ==
    {CachePath(created + 1), CachePath(1), RelativePath}
        \cup (IF cache = <<>> THEN {}
              ELSE {KeyPath(cache[1].key), KeyPath(cache[Len(cache)].key)})

GetShaclGraph ==
    /\ \E p \in CallPaths, parses \in BOOLEAN :
          /\ IF Len(history) < warm
             THEN p = CachePath(created + 1) /\ parses /\ free' = free
             ELSE free < MaxFreeCalls /\ free' = free + 1
          /\ LET r == get_shacl_graph(cache, created, PositionalStr(p), parses)
             IN /\ cache' = r.cache
                /\ created' = r.created
                /\ history' = IF r.result = "returned" THEN Append(history, p) ELSE history
                /\ lastGet' = [path |-> p, result |-> r.result, graph |-> r.graph]
    /\ UNCHANGED <<warm, svars, dvars>>

InitCache ==
    /\ IdleCache /\ warm \in WarmSizes /\ free = 0
    /\ IdleShacl
    /\ IdleDir

NextCache == GetShaclGraph

SpecCache == InitCache /\ [][NextCache]_vars

(***************************************************************************)
(* SpecShacl: calls of validate_shacl on one file in one process.          *)
(***************************************************************************)
MaxDirDepth == 6
MaxRules == 2
MaxShaclCalls == 2

\* Directories: components 1 and 2, component 2 only in the first two places
\* (paths that leave the base directory's line above it, at it, or not at all).
DirPool(n) ==
    UNION { {d \in [1..k -> {1, 2}] : \A i \in 1..k : i > 2 => d[i] = 1} : k \in 0..n }

WorkingDirs == { <<1>>, <<1, 1>> }

FileDirs ==
    {Path(TRUE, d) : d \in DirPool(MaxDirDepth)}
        \cup {Path(FALSE, d) : d \in DirPool(MaxDirDepth - 1)}

Prefixes(d) == {SubSeq(d, 1, k) : k \in 0..Len(d)}

\* What Graph.parse and the engine do in a call.
Environments ==
    { [parses |-> TRUE, verdict |-> "valid"], [parses |-> TRUE, verdict |-> "invalid"],
      [parses |-> TRUE, verdict |-> "raises"], [parses |-> FALSE, verdict |-> "valid"] }

ValidateShacl ==
    /\ proc.state = "running"
    /\ scalls < MaxShaclCalls
    /\ \E env \in Environments :
          LET r == validate_shacl(cache, created, file, rulesAt, cwd, env.parses, env.verdict)
              got == r.gets # <<>>
              graph == IF r.engine # <<>> THEN r.engine[1].shacl_graph ELSE NoGraph
          IN /\ cache' = r.cache
             /\ created' = r.created
             /\ history' = IF got /\ graph # NoGraph THEN Append(history, r.gets[1]) ELSE history
             /\ lastGet' = IF got
                           THEN [path |-> r.gets[1],
                                 result |-> IF graph # NoGraph THEN "returned" ELSE r.outcome,
                                 graph |-> graph]
                           ELSE lastGet
             /\ sh' = [called |-> TRUE, examined |-> r.examined, found |-> r.found,
                       rule_file_path |-> r.rule_file_path, gets |-> r.gets,
                       engine |-> r.engine, verdict |-> r.verdict, log |-> r.log,
                       outcome |-> r.outcome]
             /\ proc' = IF r.outcome = "SystemExit" THEN Exited ELSE Running
    /\ scalls' = scalls + 1
    /\ UNCHANGED <<warm, free, rulesAt, cwd, file, dvars>>

InitShacl ==
    /\ IdleCache /\ warm = 0 /\ free = 0
    /\ cwd \in WorkingDirs
    /\ \E dir \in FileDirs :
          /\ file = Join(dir, DataName)
          /\ rulesAt \in {R \in SUBSET Prefixes(Absolute(dir, cwd).parts) :
                            Cardinality(R) <= MaxRules}
    /\ sh = NoShacl
    /\ proc = Running
    /\ scalls = 0
    /\ IdleDir

NextShacl == ValidateShacl

SpecShacl == InitShacl /\ [][NextShacl]_vars

(***************************************************************************)
(* Properties of validate_directory.                                       *)
(***************************************************************************)
\* Version precedence stated on its own: the releases, padded with zeros to
\* the same length, are compared component by component as numbers.
PadTo(r, n) == [i \in 1..n |-> IF i <= Len(r) THEN r[i] ELSE 0]
NumericLE(x, y) ==
    LET n == IF Len(Release(x)) > Len(Release(y)) THEN Len(Release(x)) ELSE Len(Release(y))
        a == PadTo(Release(x), n)
        b == PadTo(Release(y), n)
    IN \/ a = b
       \/ \E k \in 1..n : a[k] < b[k] /\ \A i \in 1..(k - 1) : a[i] = b[i]

\* The version directories no other one exceeds (none if a name is no version).
HighestFolders(fs) ==
    IF \A x \in Folders(fs) : IsVersion(x)
    THEN {m \in Folders(fs) : \A o \in Folders(fs) : NumericLE(o, m)}
    ELSE {}

\* Same entry names, and each same-named pair is two files with the same bytes.
ByteIdentical(a, b) ==
    /\ DOMAIN a = DOMAIN b
    /\ \A n \in DOMAIN a :
          a[n].kind = "file" /\ b[n].kind = "file" /\ a[n].bytes = b[n].bytes

LatestMatchesHighest ==
    /\ IsDir(top, Latest)
    /\ HighestFolders(top) # {}
    /\ \A m \in HighestFolders(top) : ByteIdentical(top[Latest].files, top[m].files)

\* What the call appended to the caller's list.
Appended == SubSeq(errors, Len(errors0) + 1, Len(errors))

\* C1: when "latest" and the highest version directory hold the same entry
\* names and every same-named entry has byte-identical content, the error
\* list after the call is the error list before the call.
C1_IdenticalLeavesErrorsUnchanged ==
    (dpc = "done" /\ LatestMatchesHighest) => errors = errors0

C1_Witness ==
    /\ dpc = "done"
    /\ LatestMatchesHighest
    /\ Cardinality(Folders(top)) >= 2
    /\ DOMAIN top[Latest].files = FileNames
    /\ errors0 # <<>>

\* The "Only in <dir>/" entries among the appended ones, by position.
OnlyInAt(dir) == {i \in 1..Len(Appended) : Appended[i].kind = "Only in" /\ Appended[i].dir = dir}

ListsExactly(names, S) ==
    /\ Range(names) = S
    /\ Len(names) = Cardinality(S)

\* C2: once "latest" and the version directory both exist, an "Only in
\* latest/" entry is appended exactly when some name is in "latest" and not
\* in the version directory and lists exactly those names; likewise "Only in
\* <version>/" for the names only in the version directory; the entry for
\* "latest" comes before the entry for the version directory.
C2_OnlyInMessages ==
    (dpc = "done" /\ dres.compared) =>
        LET left == GlobNames(top, Latest)
            right == GlobNames(top, dres.last_version)
            la == OnlyInAt(Latest)
            ve == OnlyInAt(dres.last_version)
        IN /\ (la # {}) <=> (left \ right # {})
           /\ Cardinality(la) <= 1
           /\ \A i \in la : ListsExactly(Appended[i].names, left \ right)
           /\ (ve # {}) <=> (right \ left # {})
           /\ Cardinality(ve) <= 1
           /\ \A i \in ve : ListsExactly(Appended[i].names, right \ left)
           /\ \A i \in la, j \in ve : i < j

C2_Witness ==
    /\ dpc = "done"
    /\ dres.compared
    /\ OnlyInAt(Latest) # {}
    /\ OnlyInAt(dres.last_version) # {}

\* C3: every file name in both directories whose two files differ in their
\* bytes gets an "ERROR: files are different" entry naming both paths and a
\* logged unified diff of the two files.
C3_EveryByteMismatchReported ==
    (dpc = "done" /\ dres.compared) =>
        \A n \in GlobNames(top, Latest) \cap GlobNames(top, dres.last_version) :
            LET l == top[Latest].files[n]
                r == top[dres.last_version].files[n]
            IN (l.kind = "file" /\ r.kind = "file" /\ l.bytes # r.bytes) =>
                  /\ \E i \in 1..Len(Appended) :
                        Appended[i] = MsgDifferent(FilePath(Latest, n),
                                                   FilePath(dres.last_version, n))
                  /\ \E i \in 1..Len(dlog) :
                        /\ dlog[i] # <<>>
                        /\ dlog[i][1].fromfile = FilePath(Latest, n)
                        /\ dlog[i][1].tofile = FilePath(dres.last_version, n)

\* C4: the directory compared with "latest" is one no other version
\* directory exceeds under version precedence; of "1.0", "2.3" and "10.0"
\* it is "10.0".
C4_HighestVersionSelected ==
    (dpc = "done" /\ dres.last_version # NoName) =>
        /\ dres.last_version \in Folders(top)
        /\ \A o \in Folders(top) : NumericLE(o, dres.last_version)
        /\ Folders(top) = {FolderSeq[1], FolderSeq[2], FolderSeq[3]}
              => dres.last_version = <<"1", "0", ".", "0">>

C4_Witness ==
    /\ dpc = "done"
    /\ Folders(top) = {<<"1", ".", "0">>, <<"2", ".", "3">>, <<"1", "0", ".", "0">>}
    /\ dres.last_version = <<"1", "0", ".", "0">>
    /\ dres.compared

\* C8: the call returns normally to its caller for every directory layout.
C8_AlwaysReturnsNormally ==
    dpc = "done" => dres.outcome = "returned"

\* C10: the assertion never fails: when a version directory was selected it
\* exists, so "latest exists and the selected directory does not" is never
\* the case.
C10_AssertionNeverFails ==
    dpc = "done" =>
        /\ dres.outcome # "AssertionError"
        /\ dres.last_version # NoName => Exists(top, dres.last_version)

C10_Witness ==
    /\ dpc = "done"
    /\ dres.compared
    /\ dres.last_version = <<"v", "1">>

(***************************************************************************)
(* Properties of validate_shacl.                                           *)
(***************************************************************************)
\* C5: when the engine reports the file invalid the process ends with exit
\* status 1 and the function's handler does not intercept that (nothing is
\* logged at error level, the outcome is SystemExit itself); when the engine
\* reports it valid the function returns and the process goes on.
C5_InvalidExitsValidReturns ==
    sh.called =>
        /\ sh.verdict = "invalid" =>
              /\ sh.outcome = "SystemExit"
              /\ proc.state = "exited"
              /\ proc.status = 1
              /\ \A i \in 1..Len(sh.log) : sh.log[i].level # "error"
        /\ sh.verdict = "valid" =>
              /\ sh.outcome = "returned"
              /\ proc.state = "running"

C5_Witness ==
    /\ sh.called
    /\ sh.verdict = "invalid"
    /\ sh.found
    /\ proc.state = "exited"

\* C6: when no examined directory holds a rules file, get_shacl_graph is not
\* called, the engine is called exactly once, with no constraint graph and
\* advanced mode on, and the outcome is the engine's alone.
C6_NoRulesFileNoGraph ==
    (sh.called /\ \A i \in 1..Len(sh.examined) : ~RulesExist(sh.examined[i], rulesAt, cwd)) =>
        /\ sh.gets = <<>>
        /\ sh.engine = <<[file |-> file, shacl_graph |-> NoGraph, advanced |-> TRUE]>>
        /\ sh.outcome = (CASE sh.verdict = "valid" -> "returned"
                           [] sh.verdict = "invalid" -> "SystemExit"
                           [] OTHER -> "EngineError")

C6_Witness ==
    /\ sh.called
    /\ \A i \in 1..Len(sh.examined) : ~RulesExist(sh.examined[i], rulesAt, cwd)
    /\ Len(sh.examined) = 5
    /\ rulesAt # {}
    /\ sh.outcome = "returned"

IsPrefix(a, b) == Len(a) <= Len(b) /\ SubSeq(b, 1, Len(a)) = a
\* The directory p names lies in the base directory's tree / strictly above it.
UnderBase(p) == IsPrefix(basedir.parts, Absolute(p, cwd).parts)
AboveBase(p) ==
    /\ IsPrefix(Absolute(p, cwd).parts, basedir.parts)
    /\ Absolute(p, cwd).parts # basedir.parts

\* C9: the walk starts at the file's parent and moves to the parent at each
\* step, examines at most 5 directories, stops at the first that holds
\* rules.shacl and uses that file's graph, and (for a file in the base
\* directory's tree) examines no directory above the base directory.
C9_AncestorWalk ==
    sh.called =>
        LET n == Len(sh.examined) IN
        /\ n \in 1..5
        /\ sh.examined[1] = Parent(file)
        /\ \A i \in 1..(n - 1) :
              /\ sh.examined[i + 1] = Parent(sh.examined[i])
              /\ ~RulesExist(sh.examined[i], rulesAt, cwd)
        /\ sh.found <=> RulesExist(sh.examined[n], rulesAt, cwd)
        /\ sh.gets = IF sh.found
                     THEN <<Absolute(Join(sh.examined[n], RulesName), cwd)>>
                     ELSE <<>>
        /\ UnderBase(Parent(file)) => \A i \in 1..n : ~AboveBase(sh.examined[i])

(***************************************************************************)
(* Properties of the get_shacl_graph cache.                                *)
(***************************************************************************)
\* The n most recently used distinct paths of a history, least recent first.
RECURSIVE Recent(_, _)
Recent(h, n) ==
    IF h = <<>> \/ n = 0 THEN <<>>
    ELSE LET last == h[Len(h)]
             rest == SelectSeq(SubSeq(h, 1, Len(h) - 1), LAMBDA x : x # last)
         IN Append(Recent(rest, n - 1), last)

CachedPaths == [i \in 1..Len(cache) |-> KeyPath(cache[i].key)]

CacheHolds100MostRecent ==
    /\ Len(cache) <= 100
    /\ \A i \in 1..Len(cache) : CachedPaths[i].abs
    /\ CachedPaths = Recent(history, 100)

\* One call, from the cache before it to the cache after it.
CacheCallStep ==
    LET p == lastGet'.path
        at == {i \in 1..Len(cache) : CachedPaths[i] = p}
    IN IF at # {}
       THEN /\ lastGet'.result = "returned"
            /\ \A i \in at : lastGet'.graph = cache[i].graph
            /\ created' = created
            /\ Range(cache') = Range(cache)
       ELSE IF lastGet'.result = "returned"
            THEN /\ created' = created + 1
                 /\ \A i \in 1..Len(cache) : cache[i].graph # lastGet'.graph
                 /\ Len(cache') = (IF Len(cache) = 100 THEN 100 ELSE Len(cache) + 1)
                 /\ SubSeq(cache', 1, Len(cache') - 1)
                        = (IF Len(cache) = 100 THEN Tail(cache) ELSE cache)
                 /\ KeyPath(cache'[Len(cache')].key) = p
                 /\ cache'[Len(cache')].graph = lastGet'.graph
            ELSE cache' = cache

\* C7: the cache holds at most 100 graphs, keyed by absolute path, those of
\* the 100 most recently used distinct paths; a call for a cached path
\* returns the cached graph without parsing, a call for another path parses
\* once and, the cache being full, drops the least recently used entry; a
\* call that raises adds no entry.
C7_CacheIsLru == []CacheHolds100MostRecent /\ [][CacheCallStep]_vars

C7_Witness ==
    /\ Len(cache) = 100
    /\ \A i \in 1..Len(cache) : CachedPaths[i] # CachePath(1)
    /\ lastGet.result = "returned"
    /\ lastGet.graph # created
    /\ free >= 2

====
